---- MODULE Spec2Model ----
(***************************************************************************)
(* Model of the client-broadcast core of the Quazaar/Blitz server:         *)
(*   - the hub of utils/websocket/channel.go (clients map guarded by the   *)
(*     RWMutex clientsMu, RegisterClient, UnregisterClient,                *)
(*     BroadcastMessage, GetClientCount),                                  *)
(*   - the connection handler of utils/websocket/handler.go (Handle and    *)
(*     the writer goroutine it spawns),                                    *)
(*   - the media poller of package poller, the one caller of               *)
(*     WriteChannelMessage/BroadcastMessage, and the loop of Poller that   *)
(*     drives it,                                                          *)
(*   - the command dispatch of utils/player/commands.go and the responses  *)
(*     Handle writes for it.                                               *)
(* Every goroutine is a small program counter machine.  A step is one      *)
(* statement that can be interleaved with the other goroutines; the        *)
(* bodies of RegisterClient and UnregisterClient run under the exclusive   *)
(* lock and are one step each, BroadcastMessage holds the read lock over   *)
(* its whole loop and is one step per select statement.                    *)
(***************************************************************************)
EXTENDS Integers, FiniteSets, Sequences, TLC

\* ---- bounds of the model ------------------------------------------------
NumSessions == 2        \* connections accepted over the run
MaxBroadcasts == 2      \* BroadcastMessage calls over the run
MaxHubBroadcasts == 1   \* the same, in the runs with direct hub callers
MaxTicks == 2           \* ticks the ticker of Poller delivers over the run
NumCallers == 3         \* goroutines calling the hub at the same time, in
                        \* the runs that follow the lock clientsMu
MaxCleans == 1          \* CleanClientBuffer and CleanAllBuffers calls made
                        \* by callers of the hub over the run

\* ---- program constants --------------------------------------------------
SendCap == 0            \* make(chan models.ServerResponse): unbuffered

Sessions == 1 .. NumSessions

\* req.RemoteAddr of connection s: a reconnecting peer gets the address of
\* its earlier connection again, so connections come in pairs that share
\* their remote address
RemoteAddr(s) == (s + 1) \div 2

\* time.Now().UnixNano() at the creation of the Client of connection s:
\* two connections of one remote address are made at different times, two
\* connections of different addresses may be made in the same nanosecond
ConnTime(s) == (s \div 2) + 1

\* client.ID with the time of the connection left out
ClientIDAddrOnly(s) == <<RemoteAddr(s), 0>>

\* client.ID: fmt.Sprintf("%s-%d", req.RemoteAddr, time.Now().UnixNano()),
\* the pair of the two (the digits after the last "-" are the time)
ClientID(s) == <<RemoteAddr(s), ConnTime(s)>>

UnknownID == <<0, 0>>   \* an id no connection ever gets
Ids == {ClientID(s) : s \in Sessions} \cup {UnknownID}

\* the zero models.ServerResponse: no response in hand
NoMsg == [status |-> "", message |-> "", data |-> [k \in {} |-> k]]

\* the media response tagged with the status "player"
MediaInfoMessagePlayer(n) ==
    [status |-> "player", message |-> "", data |-> [snapshot |-> n]]

\* the response the closure of poller.Handle builds from the snapshot of
\* GetPlayerInfo; n stands for the snapshot of the n-th publishing poll
MediaInfoMessage(n) ==
    [status |-> "success", message |-> "media_info", data |-> [snapshot |-> n]]

\* the response Handle writes first on a new connection
WelcomeMessage ==
    [status |-> "", message |-> "Welcome to the WebSocket server!",
     data |-> [k \in {} |-> k]]

\* what a response written on a connection is
Kind(m) ==
    IF m = WelcomeMessage THEN "welcome"
    ELSE IF m.message = "media_info" THEN "media_info"
    ELSE "response"

\* the goroutines that call the hub and the operations they call
Callers == 1 .. NumCallers
HubOps == {"RegisterClient", "UnregisterClient", "BroadcastMessage",
           "GetClientCount", "CleanAllBuffers"}

VARIABLES
    hpc,         \* hpc[s]: position of the goroutine running Handle for s
    wpc,         \* wpc[s]: position of the writer goroutine of s
    wmsg,        \* wmsg[s]: the response the writer took from client.Send
    queue,       \* queue[s]: the buffer of the channel client.Send
    clients,     \* the map clients: id -> *Client
    closes,      \* closes[s]: number of close(client.Send) executed
    connClosed,  \* connClosed[s]: conn.Close() has run
    panicked,    \* a runtime panic happened (close of a closed channel,
                 \* send on a closed channel, nil dereference)
    bpc,         \* position of the poller inside BroadcastMessage
    bcastN,      \* number of BroadcastMessage calls so far; the id of msg
    todo,        \* keys of clients the range loop has not visited yet
    bAccept,     \* sessions whose queue could accept at the time of the call
    bSent,       \* sessions for which the send case was taken in this call
    bDropped,    \* sessions for which the default case was taken
    extUnreg,    \* the kinds of redundant UnregisterClient calls made so far
                 \* by a caller other than Handle: "never" (the id was never
                 \* registered), "again" (the id was already unregistered)
    cur,         \* cur[s]: the message conn.ReadJSON returned to Handle of s,
                 \* until the iteration of the read loop is over
    connW,       \* connW[s]: the response Handle is writing on the
                 \* connection of s with conn.WriteJSON
    spawned,     \* spawned[s]: the SpawnProcess call the dispatch of cur[s]
                 \* made: the player action that made it and its error
    ppc,         \* position of the goroutine running Poller
    tick,        \* a tick is pending in ticker.C (capacity 1)
    quit,        \* the quit channel has been signalled
    snapErr,     \* GetPlayerInfo returned an error in the latest invocation
    fnN,         \* number of invocations of the task fn so far
    tickN,       \* number of ticks Poller received from ticker.C so far
    fnBase,      \* bcastN at the time the latest invocation of fn began
    first,       \* first[s]: the kind of the first message written on the
                 \* connection of s: "" while nothing was written
    out,         \* out[s]: the snapshots of the broadcast messages written
                 \* on the connection of s, in the order of the writes
    cleanQ,      \* the ids for which a CleanClientBuffer call was started
                 \* and has not yet looked its client up
    cleanN,      \* CleanClientBuffer and CleanAllBuffers calls so far
    cpc,         \* position of the CleanClientBuffer call past its lookup
    ctarget,     \* the session whose *Client that call found; 0 if none
    lop,         \* lop[p]: the hub operation caller p is in; "" if none
    lpc,         \* lpc[p]: where caller p is with clientsMu: "out", "wait"
                 \* (blocked in RLock or Lock), "announced" (in Lock, new
                 \* readers are held off, waiting for the readers inside
                 \* to leave), "in" (holds the lock)
    rw,          \* clientsMu: the number of readers inside and the state
                 \* of the writer side
    cleaned,     \* what the receive case of CleanClientBuffer received so
                 \* far: "message" (a response), "closed" (the zero value
                 \* of a closed channel)
    sharedChannel,   \* shared-channel revision: the package variable; 0 is
                     \* nil, s the channel the GetChannel call of s made
    shpc,        \* shpc[s]: position of Handle of that revision, through
                 \* its GetChannel call and then its writer goroutine
    chh,         \* chh[s]: the channel that Handle holds, loaded or made
                 \* inside GetChannel and then returned; 0 if none yet
    received,    \* received[s]: the messages the writer goroutine of s
                 \* received from its channel
    sentN,       \* WriteChannelMessage calls of that revision so far
    reader,      \* reader[s]: position of the read loop of wsHandler
    writer,      \* writer[s]: position of the writer goroutine of wsHandler
    poller,      \* poller[s]: position of the player poller of wsHandler
    messages,    \* messages[s]: the channel messages of wsHandler, "open"
                 \* or "closed"; it is unbuffered and holds nothing
    quitPlayerPoll   \* quitPlayerPoll[s]: the same for the quit channel

vars == <<hpc, wpc, wmsg, queue, clients, closes, connClosed, panicked,
          bpc, bcastN, todo, bAccept, bSent, bDropped, extUnreg,
          cur, connW, spawned, ppc, tick, quit, snapErr, fnN, tickN, fnBase,
          first, out, cleanQ, cleanN, cpc, ctarget, cleaned, lop, lpc, rw,
          sharedChannel, shpc, chh, received, sentN,
          reader, writer, poller, messages, quitPlayerPoll>>

hubVars == <<clients, closes, panicked>>
pollVars == <<bpc, bcastN, todo, bAccept, bSent, bDropped>>
cmdVars == <<cur, connW, spawned>>
loopVars == <<ppc, tick, quit, snapErr, fnN, tickN, fnBase>>
wireVars == <<first, out>>
cleanVars == <<cleanQ, cleanN, cpc, ctarget, cleaned>>
lockVars == <<lop, lpc, rw>>
sharedVars == <<sharedChannel, shpc, chh, received, sentN>>
wsVars == <<reader, writer, poller, messages, quitPlayerPoll>>
earlierVars == <<sharedVars, wsVars>>
opsVars == <<cleanVars, lockVars, earlierVars>>
auxVars == <<wireVars, opsVars>>

\* ---- helpers ------------------------------------------------------------
Min(a, b) == IF a < b THEN a ELSE b

\* clients[id] = c
MapPut(m, id, c) ==
    [k \in DOMAIN m \cup {id} |-> IF k = id THEN c ELSE m[k]]

\* delete(clients, id)
MapDelete(m, id) == [k \in DOMAIN m \ {id} |-> m[k]]

\* the exclusive lock can be taken: no reader holds clientsMu
LockFree == bpc = "idle"

\* the writer goroutine exists and has not returned
WriterAlive(s) == wpc[s] \in {"recv", "write"}

\* a send on client.Send can proceed without blocking: a receiver is parked
\* on the channel or its buffer has room (it has none: SendCap = 0)
CanAccept(s) ==
    /\ closes[s] = 0
    /\ (wpc[s] = "recv" \/ Len(queue[s]) < SendCap)

\* ---- commands: utils/player/commands.go ----------------------------------
\* a decoded JSON value: its dynamic type and its text
JStr(v) == [type |-> "string", val |-> v]
JNum(v) == [type |-> "number", val |-> v]

\* the nil map: `var msg map[string]interface{}` before ReadJSON fills it
NoCmd == [k \in {} |-> k]

\* the command strings a peer sends: every label of the switch of
\* HandlePlayerCommand, a label in another case, the name of an action the
\* switch does not dispatch, a name that is no action, the empty string
CommandStrings ==
    {"play", "pause", "player_toggle", "play-pause", "next", "player_next",
     "prev", "player_prev", "volume_up", "player_volume_up", "volume_down",
     "player_volume_down", "stop", "Play", "seek", "reboot", ""}

\* the messages conn.ReadJSON decodes: a string command, a command that is
\* not a string, and a message without a "command" field
Inbound ==
    {[command |-> JStr(c)] : c \in CommandStrings}
        \cup {[command |-> JNum("7")], [type |-> JStr("ping")]}

\* the allowlist: the case labels of the switch of HandlePlayerCommand
Allowlist ==
    {"play", "pause", "player_toggle", "play-pause", "next", "player_next",
     "prev", "player_prev", "volume_up", "player_volume_up", "volume_down",
     "player_volume_down", "stop"}

\* no player action
NoAction == ""

\* the switch without the second label of the toggle case
PlayerActionNoAlias(command) ==
    CASE command = "play" -> "Play"
      [] command = "pause" -> "Pause"
      [] command = "player_toggle" -> "TogglePlayPause"
      [] command \in {"next", "player_next"} -> "Next"
      [] command \in {"prev", "player_prev"} -> "Previous"
      [] command \in {"volume_up", "player_volume_up"} -> "VolumeUp"
      [] command \in {"volume_down", "player_volume_down"} -> "VolumeDown"
      [] command = "stop" -> "Stop"
      [] OTHER -> NoAction

\* the switch of HandlePlayerCommand: the action function a command string
\* selects; the default case selects none
PlayerAction(command) ==
    CASE command = "play" -> "Play"
      [] command = "pause" -> "Pause"
      [] command \in {"player_toggle", "play-pause"} -> "TogglePlayPause"
      [] command \in {"next", "player_next"} -> "Next"
      [] command \in {"prev", "player_prev"} -> "Previous"
      [] command \in {"volume_up", "player_volume_up"} -> "VolumeUp"
      [] command \in {"volume_down", "player_volume_down"} -> "VolumeDown"
      [] command = "stop" -> "Stop"
      [] OTHER -> NoAction

\* the nil error
NoErr == ""

\* what utils.SpawnProcess("playerctl", args) returns as its error: nil, or
\* the error of cmd.Output()
SpawnErrors == {NoErr, "exit status 1"}

\* no SpawnProcess call
NoSpawn == [action |-> NoAction, err |-> NoErr]

\* the SpawnProcess call behind the result r of HandlePlayerCommand
SpawnCall(r) ==
    IF r.action = NoAction
    THEN NoSpawn
    ELSE [action |-> r.action, err |-> r.err]

\* HandlePlayerCommand whose default case hands the command to playerctl
HandlePlayerCommandPassThrough(cmdData, e) ==
    IF "command" \notin DOMAIN cmdData \/ cmdData.command.type # "string"
    THEN [err |-> "invalid command format", action |-> NoAction]
    ELSE LET command == cmdData.command.val IN
         IF PlayerAction(command) = NoAction
         THEN [err |-> e, action |-> "Play"]
         ELSE [err |-> e, action |-> PlayerAction(command)]

\* HandlePlayerCommand(cmdData): the error it returns and the action whose
\* SpawnProcess call it made; e is the error that call returns
HandlePlayerCommand(cmdData, e) ==
    IF "command" \notin DOMAIN cmdData \/ cmdData.command.type # "string"
    THEN [err |-> "invalid command format", action |-> NoAction]
    ELSE LET command == cmdData.command.val IN
         IF PlayerAction(command) = NoAction
         THEN [err |-> "unknown command: " \o command, action |-> NoAction]
         ELSE [err |-> e, action |-> PlayerAction(command)]

\* fmt.Sprintf("%v", command)
Sprint(v) == v.val

\* errorMsg with the detail of the error as the message of the response
ErrorResponseInMessage(detail) ==
    [status |-> "error", message |-> detail, data |-> [error |-> detail]]

\* errorMsg of Handle: models.ServerResponse for a failed command
ErrorResponse(detail) ==
    [status |-> "error", message |-> "command_failed",
     data |-> [error |-> detail]]

\* successMsg of Handle: models.ServerResponse for an executed command
SuccessResponse(name) ==
    [status |-> "success", message |-> "command_executed",
     data |-> [command |-> name]]

\* the responses Handle can write
Responses ==
    {ErrorResponse(d) : d \in {"invalid command format", "exit status 1"}
                              \cup {"unknown command: " \o c :
                                       c \in CommandStrings}}
        \cup {SuccessResponse(c) : c \in CommandStrings}

\* ---- the state ------------------------------------------------------------
TypeOK ==
    /\ hpc \in [Sessions -> {"idle", "failed", "created", "welcome", "read",
                             "dispatch", "respond", "waitWriter", "unreg",
                             "close", "done"}]
    /\ wpc \in [Sessions -> {"none", "recv", "write", "exited"}]
    /\ \A s \in Sessions :
         wmsg[s] \in {NoMsg} \cup {MediaInfoMessage(n) : n \in 1 .. bcastN}
    /\ \A s \in Sessions : Len(queue[s]) <= SendCap
    /\ DOMAIN clients \subseteq Ids
    /\ closes \in [Sessions -> 0 .. 2]
    /\ connClosed \in [Sessions -> BOOLEAN]
    /\ panicked \in BOOLEAN
    /\ bpc \in {"idle", "loop"}
    /\ bcastN \in Nat
    /\ todo \subseteq Ids
    /\ bAccept \subseteq Sessions
    /\ bSent \subseteq Sessions
    /\ bDropped \subseteq Sessions
    /\ extUnreg \subseteq {"never", "again"}
    /\ \A s \in Sessions : cur[s] \in Inbound \cup {NoCmd}
    /\ \A s \in Sessions : connW[s] \in Responses \cup {NoMsg}
    /\ \A s \in Sessions :
         /\ spawned[s].action \in {PlayerAction(c) : c \in CommandStrings}
         /\ spawned[s].err \in SpawnErrors
    /\ ppc \in {"start", "fn", "got", "sent", "select", "returned"}
    /\ tick \in BOOLEAN
    /\ quit \in BOOLEAN
    /\ snapErr \in BOOLEAN
    /\ fnN \in 0 .. MaxTicks + 1
    /\ tickN \in 0 .. MaxTicks
    /\ fnBase \in 0 .. bcastN
    /\ first \in [Sessions -> {"", "welcome", "media_info", "response"}]
    /\ \A s \in Sessions :
         /\ Len(out[s]) <= bcastN
         /\ \A i \in DOMAIN out[s] : out[s][i] \in 1 .. bcastN
    /\ cleanQ \subseteq Ids
    /\ cleanN \in 0 .. MaxCleans
    /\ cpc \in {"idle", "drain"}
    /\ ctarget \in Sessions \cup {0}
    /\ cleaned \subseteq {"message", "closed"}
    /\ lop \in [Callers -> HubOps \cup {""}]
    /\ lpc \in [Callers -> {"out", "wait", "announced", "in"}]
    /\ rw.readers \in 0 .. NumCallers
    /\ rw.writer \in {"free", "pending", "held"}
    /\ sharedChannel \in Sessions \cup {0}
    /\ shpc \in [Sessions -> {"idle", "get", "check", "create", "ret",
                              "range", "write"}]
    /\ chh \in [Sessions -> Sessions \cup {0}]
    /\ received \in [Sessions -> SUBSET (1 .. MaxBroadcasts)]
    /\ sentN \in 0 .. MaxBroadcasts
    /\ reader \in [Sessions -> {"idle", "read", "send", "closeQuit",
                                "closeMessages", "done"}]
    /\ writer \in [Sessions -> {"none", "range", "write", "returned"}]
    /\ poller \in [Sessions -> {"none", "select", "send", "returned",
                                "panic"}]
    /\ messages \in [Sessions -> {"open", "closed"}]
    /\ quitPlayerPoll \in [Sessions -> {"open", "closed"}]

Init ==
    /\ hpc = [s \in Sessions |-> "idle"]
    /\ wpc = [s \in Sessions |-> "none"]
    /\ wmsg = [s \in Sessions |-> NoMsg]
    /\ queue = [s \in Sessions |-> <<>>]
    /\ clients = <<>>
    /\ closes = [s \in Sessions |-> 0]
    /\ connClosed = [s \in Sessions |-> FALSE]
    /\ panicked = FALSE
    /\ bpc = "idle"
    /\ bcastN = 0
    /\ todo = {}
    /\ bAccept = {}
    /\ bSent = {}
    /\ bDropped = {}
    /\ extUnreg = {}
    /\ cur = [s \in Sessions |-> NoCmd]
    /\ connW = [s \in Sessions |-> NoMsg]
    /\ spawned = [s \in Sessions |-> NoSpawn]
    /\ ppc = "start"
    /\ tick = FALSE
    /\ quit = FALSE
    /\ snapErr = FALSE
    /\ fnN = 0
    /\ tickN = 0
    /\ fnBase = 0
    /\ first = [s \in Sessions |-> ""]
    /\ out = [s \in Sessions |-> <<>>]
    /\ cleanQ = {}
    /\ cleanN = 0
    /\ cpc = "idle"
    /\ ctarget = 0
    /\ cleaned = {}
    /\ lop = [p \in Callers |-> ""]
    /\ lpc = [p \in Callers |-> "out"]
    /\ rw = [readers |-> 0, writer |-> "free"]
    /\ sharedChannel = 0
    /\ shpc = [s \in Sessions |-> "idle"]
    /\ chh = [s \in Sessions |-> 0]
    /\ received = [s \in Sessions |-> {}]
    /\ sentN = 0
    /\ reader = [s \in Sessions |-> "idle"]
    /\ writer = [s \in Sessions |-> "none"]
    /\ poller = [s \in Sessions |-> "none"]
    /\ messages = [s \in Sessions |-> "open"]
    /\ quitPlayerPoll = [s \in Sessions |-> "open"]

\* the first message written on the connection of s, after one of kind k
\* was written
FirstWritten(s, k) == [first EXCEPT ![s] = IF @ = "" THEN k ELSE @]

\* ---- the hub: channel.go ------------------------------------------------
\* RegisterClient: clients[client.ID] = client, under clientsMu.Lock
RegisterClient(c) ==
    /\ clients' = MapPut(clients, ClientID(c), c)
    /\ UNCHANGED <<closes, panicked>>

\* close(client.Send); closing a closed channel panics
CloseSend(c) ==
    /\ closes' = [closes EXCEPT ![c] = Min(2, @ + 1)]
    /\ panicked' = (closes[c] >= 1)

\* UnregisterClient without the `ok` test of the map lookup: an absent id
\* yields a nil client, and the close dereferences it
UnregisterClientNoCheck(id) ==
    IF id \in DOMAIN clients
    THEN /\ CloseSend(clients[id])
         /\ clients' = MapDelete(clients, id)
    ELSE /\ panicked' = TRUE
         /\ UNCHANGED <<clients, closes>>

\* UnregisterClient that deletes the entry and leaves the queue open
UnregisterClientNoClose(id) ==
    IF id \in DOMAIN clients
    THEN /\ clients' = MapDelete(clients, id)
         /\ UNCHANGED <<closes, panicked>>
    ELSE UNCHANGED <<clients, closes, panicked>>

\* UnregisterClient that closes the queue but leaves the entry in the map
UnregisterClientNoDelete(id) ==
    IF id \in DOMAIN clients
    THEN /\ CloseSend(clients[id])
         /\ UNCHANGED clients
    ELSE UNCHANGED <<clients, closes, panicked>>

\* UnregisterClient that resets the hub: every registered queue is closed
\* and the map is emptied
UnregisterClientAll(id) ==
    /\ clients' = [k \in {} |-> k]
    /\ closes' = [c \in Sessions |->
                   IF \E k \in DOMAIN clients : clients[k] = c
                   THEN Min(2, closes[c] + 1) ELSE closes[c]]
    /\ panicked' = \E k \in DOMAIN clients : closes[clients[k]] >= 1

\* UnregisterClient: if the id is in the map, close its queue and delete it
UnregisterClient(id) ==
    IF id \in DOMAIN clients
    THEN /\ CloseSend(clients[id])
         /\ clients' = MapDelete(clients, id)
    ELSE UNCHANGED <<clients, closes, panicked>>

\* GetClientCount: len(clients) under the read lock
GetClientCount == Cardinality(DOMAIN clients)

\* ---- BroadcastMessage, called by the poller ------------------------------
\* WriteChannelMessage(msg) calls BroadcastMessage(msg): clientsMu.RLock();
\* if len(clients) == 0 return; else enter the range loop
WriteChannelMessage ==
    /\ ~panicked
    /\ bpc = "idle"
    /\ bcastN' = bcastN + 1
    /\ IF DOMAIN clients = {}
       THEN UNCHANGED <<bpc, todo, bAccept, bSent, bDropped>>
       ELSE /\ bpc' = "loop"
            /\ todo' = DOMAIN clients
            /\ bAccept' = {clients[k] : k \in {j \in DOMAIN clients :
                                                 CanAccept(clients[j])}}
            /\ bSent' = {}
            /\ bDropped' = {}
    /\ UNCHANGED <<hpc, wpc, wmsg, queue, hubVars, connClosed, extUnreg,
                   cmdVars, auxVars>>

\* a poll of the media poller publishes; the loop of Poller that makes the
\* call is left out
BroadcastBegin ==
    /\ bcastN < MaxBroadcasts
    /\ WriteChannelMessage
    /\ UNCHANGED loopVars

\* ---- Poller: utils/poller/poller.go, and the task of poller.Handle -------
\* Poller that enters its loop without a first call of fn
PollerStartNoFire ==
    /\ ~panicked
    /\ ppc = "start"
    /\ ppc' = "select"
    /\ UNCHANGED <<hpc, wpc, wmsg, queue, hubVars, connClosed, pollVars,
                   extUnreg, cmdVars, tick, quit, snapErr, fnN, tickN, fnBase,
                   auxVars>>

\* Poller is entered: time.NewTicker(interval), then the first call fn()
PollerStart ==
    /\ ~panicked
    /\ ppc = "start"
    /\ ppc' = "fn"
    /\ fnN' = fnN + 1
    /\ fnBase' = bcastN
    /\ UNCHANGED <<hpc, wpc, wmsg, queue, hubVars, connClosed, pollVars,
                   extUnreg, cmdVars, tick, quit, snapErr, tickN, auxVars>>

\* poller.Handle that passes Poller the channel of QuiteChan with its
\* close(quit) line active: a channel that is already closed
HandleStartClosedQuit ==
    /\ ~panicked
    /\ ppc = "start"
    /\ ppc' = "fn"
    /\ quit' = TRUE
    /\ fnN' = fnN + 1
    /\ fnBase' = bcastN
    /\ UNCHANGED <<hpc, wpc, wmsg, queue, hubVars, connClosed, pollVars,
                   extUnreg, cmdVars, tick, snapErr, tickN, auxVars>>

\* poller.Handle: Poller(1*time.Second, make(chan struct{}), func() {...}).
\* The quit channel is made in the argument list, open and empty, and no
\* other goroutine ever gets hold of it.
HandleStart ==
    /\ ~quit
    /\ PollerStart

\* the interval elapses: the ticker puts a tick in ticker.C, which holds
\* one tick (a tick that finds it full is dropped)
TickerFire ==
    /\ ~panicked
    /\ ppc \notin {"start", "returned"}
    /\ ~tick
    /\ tickN < MaxTicks
    /\ tick' = TRUE
    /\ UNCHANGED <<hpc, wpc, wmsg, queue, hubVars, connClosed, pollVars,
                   extUnreg, cmdVars, ppc, quit, snapErr, fnN, tickN, fnBase,
                   auxVars>>

\* the owner of the quit channel signals it
QuitSignal ==
    /\ ~panicked
    /\ ~quit
    /\ quit' = TRUE
    /\ UNCHANGED <<hpc, wpc, wmsg, queue, hubVars, connClosed, pollVars,
                   extUnreg, cmdVars, ppc, tick, snapErr, fnN, tickN, fnBase,
                   auxVars>>

\* the select of Poller takes `case <-ticker.C` and calls fn() (when the
\* quit case is ready too, the select takes either)
PollerTick ==
    /\ ~panicked
    /\ ppc = "select"
    /\ tick
    /\ tick' = FALSE
    /\ tickN' = tickN + 1
    /\ ppc' = "fn"
    /\ fnN' = fnN + 1
    /\ fnBase' = bcastN
    /\ UNCHANGED <<hpc, wpc, wmsg, queue, hubVars, connClosed, pollVars,
                   extUnreg, cmdVars, quit, snapErr, auxVars>>

\* the select of Poller takes `case <-quit`: Poller returns
PollerQuit ==
    /\ ~panicked
    /\ ppc = "select"
    /\ quit
    /\ ppc' = "returned"
    /\ UNCHANGED <<hpc, wpc, wmsg, queue, hubVars, connClosed, pollVars,
                   extUnreg, cmdVars, tick, quit, snapErr, fnN, tickN, fnBase,
                   auxVars>>

\* the task: msg, err := utils.GetPlayerInfo()
PollGetInfo ==
    /\ ~panicked
    /\ ppc = "fn"
    /\ ppc' = "got"
    /\ snapErr' \in BOOLEAN
    /\ UNCHANGED <<hpc, wpc, wmsg, queue, hubVars, connClosed, pollVars,
                   extUnreg, cmdVars, tick, quit, fnN, tickN, fnBase, auxVars>>

\* the task: `if err != nil { ...; return }`
PollSkip ==
    /\ ~panicked
    /\ ppc = "got"
    /\ snapErr
    /\ ppc' = "select"
    /\ UNCHANGED <<hpc, wpc, wmsg, queue, hubVars, connClosed, pollVars,
                   extUnreg, cmdVars, tick, quit, snapErr, fnN, tickN, fnBase,
                   auxVars>>

\* the task without the return on error: the snapshot is published anyway
PollPublishAlways ==
    /\ ppc = "got"
    /\ WriteChannelMessage
    /\ ppc' = "sent"
    /\ UNCHANGED <<tick, quit, snapErr, fnN, tickN, fnBase>>

\* the task: websocket.WriteChannelMessage(the media_info response)
PollPublish ==
    /\ ppc = "got"
    /\ ~snapErr
    /\ WriteChannelMessage
    /\ ppc' = "sent"
    /\ UNCHANGED <<tick, quit, snapErr, fnN, tickN, fnBase>>

\* BroadcastMessage has returned: the task returns to the loop of Poller
PollFnReturn ==
    /\ ~panicked
    /\ ppc = "sent"
    /\ bpc = "idle"
    /\ ppc' = "select"
    /\ UNCHANGED <<hpc, wpc, wmsg, queue, hubVars, connClosed, pollVars,
                   extUnreg, cmdVars, tick, quit, snapErr, fnN, tickN, fnBase,
                   auxVars>>

\* one iteration of the range loop that stops the loop as soon as one
\* client took the message (each message reaches a single consumer)
BroadcastStepFirstOnly(k) ==
    /\ ~panicked
    /\ bpc = "loop"
    /\ k \in todo
    /\ LET c == clients[k] IN
       IF wpc[c] = "recv" /\ closes[c] = 0
       THEN /\ wpc' = [wpc EXCEPT ![c] = "write"]
            /\ wmsg' = [wmsg EXCEPT ![c] = MediaInfoMessage(bcastN)]
            /\ bSent' = bSent \cup {c}
            /\ todo' = {}
            /\ UNCHANGED <<queue, bDropped, panicked>>
       ELSE /\ bDropped' = bDropped \cup {c}
            /\ todo' = todo \ {k}
            /\ UNCHANGED <<wpc, wmsg, queue, bSent, panicked>>
    /\ UNCHANGED <<hpc, clients, closes, connClosed, bpc, bcastN, bAccept,
                   extUnreg, cmdVars, loopVars, auxVars>>

\* one iteration of the range loop with a blocking send `client.Send <- msg`
\* in place of the select/default
BroadcastStepBlocking(k) ==
    /\ ~panicked
    /\ bpc = "loop"
    /\ k \in todo
    /\ LET c == clients[k] IN
       /\ wpc[c] = "recv" /\ closes[c] = 0
       /\ wpc' = [wpc EXCEPT ![c] = "write"]
       /\ wmsg' = [wmsg EXCEPT ![c] = MediaInfoMessage(bcastN)]
       /\ bSent' = bSent \cup {c}
    /\ todo' = todo \ {k}
    /\ UNCHANGED <<hpc, queue, hubVars, connClosed, bpc, bcastN, bAccept,
                   bDropped, extUnreg, cmdVars, loopVars, auxVars>>

\* the iteration that evicts a client that cannot take the message: the
\* default case deletes its entry from the map
BroadcastStepEvict(k) ==
    /\ ~panicked
    /\ bpc = "loop"
    /\ k \in todo
    /\ todo' = todo \ {k}
    /\ LET c == clients[k] IN
       IF wpc[c] = "recv" /\ closes[c] = 0
       THEN /\ wpc' = [wpc EXCEPT ![c] = "write"]
            /\ wmsg' = [wmsg EXCEPT ![c] = MediaInfoMessage(bcastN)]
            /\ bSent' = bSent \cup {c}
            /\ UNCHANGED <<clients, bDropped>>
       ELSE /\ bDropped' = bDropped \cup {c}
            /\ clients' = MapDelete(clients, k)
            /\ UNCHANGED <<wpc, wmsg, bSent>>
    /\ UNCHANGED <<hpc, queue, closes, panicked, connClosed, bpc, bcastN,
                   bAccept, extUnreg, cmdVars, loopVars, auxVars>>

\* one iteration of `for _, client := range clients`: the select with the
\* send case and the default case.  The map is iterated in any order.
BroadcastStep(k) ==
    /\ ~panicked
    /\ bpc = "loop"
    /\ k \in todo
    /\ todo' = todo \ {k}
    /\ LET c == clients[k] IN
       IF closes[c] >= 1
       THEN \* send on a closed channel
            /\ panicked' = TRUE
            /\ UNCHANGED <<wpc, wmsg, queue, bSent, bDropped>>
       ELSE IF wpc[c] = "recv"
       THEN \* a parked receiver takes the message
            /\ wpc' = [wpc EXCEPT ![c] = "write"]
            /\ wmsg' = [wmsg EXCEPT ![c] = MediaInfoMessage(bcastN)]
            /\ bSent' = bSent \cup {c}
            /\ UNCHANGED <<queue, bDropped, panicked>>
       ELSE IF Len(queue[c]) < SendCap
       THEN \* room in the buffer
            /\ queue' = [queue EXCEPT
                         ![c] = Append(@, MediaInfoMessage(bcastN))]
            /\ bSent' = bSent \cup {c}
            /\ UNCHANGED <<wpc, wmsg, bDropped, panicked>>
       ELSE \* default: the client is too slow, skip this message
            /\ bDropped' = bDropped \cup {c}
            /\ UNCHANGED <<wpc, wmsg, queue, bSent, panicked>>
    /\ UNCHANGED <<hpc, clients, closes, connClosed, bpc, bcastN, bAccept,
                   extUnreg, cmdVars, loopVars, auxVars>>

\* the loop is over: deferred clientsMu.RUnlock(), BroadcastMessage returns
BroadcastReturn ==
    /\ ~panicked
    /\ bpc = "loop"
    /\ todo = {}
    /\ bpc' = "idle"
    /\ bAccept' = {}
    /\ bSent' = {}
    /\ bDropped' = {}
    /\ UNCHANGED <<hpc, wpc, wmsg, queue, hubVars, connClosed, bcastN, todo,
                   extUnreg, cmdVars, loopVars, auxVars>>

\* ---- Handle: handler.go -------------------------------------------------
\* CreateWebSocketConnection: the upgrade succeeds (then conn.Close is
\* deferred and the client is built) or fails (Handle returns at once)
Upgrade(s) ==
    /\ ~panicked
    /\ hpc[s] = "idle"
    /\ \E ok \in BOOLEAN :
         hpc' = [hpc EXCEPT ![s] = IF ok THEN "created" ELSE "failed"]
    /\ UNCHANGED <<wpc, wmsg, queue, hubVars, connClosed, pollVars, extUnreg,
                   cmdVars, loopVars, auxVars>>

\* RegisterClient(client); defer UnregisterClient(client.ID)
HandleRegister(s) ==
    /\ ~panicked
    /\ hpc[s] = "created"
    /\ LockFree
    /\ RegisterClient(s)
    /\ hpc' = [hpc EXCEPT ![s] = "welcome"]
    /\ UNCHANGED <<wpc, wmsg, queue, connClosed, pollVars, extUnreg,
                   cmdVars, loopVars, auxVars>>

\* the welcome handed to the queues of the registered sessions, as a
\* broadcast, instead of written on the connection of s
SendWelcomeBroadcast(s) ==
    /\ ~panicked
    /\ hpc[s] = "welcome"
    /\ hpc' = [hpc EXCEPT ![s] = "read"]
    /\ wpc' = [u \in Sessions |->
                IF u = s THEN "recv"
                ELSE IF CanAccept(u) /\ wpc[u] = "recv" THEN "write"
                ELSE wpc[u]]
    /\ wmsg' = [u \in Sessions |->
                 IF u # s /\ CanAccept(u) /\ wpc[u] = "recv"
                 THEN WelcomeMessage ELSE wmsg[u]]
    /\ UNCHANGED <<queue, hubVars, connClosed, pollVars, extUnreg,
                   cmdVars, loopVars, auxVars>>

\* the welcome whose error is only logged: Handle goes on to start the
\* writer goroutine and to read
SendWelcomeIgnoreError(s) ==
    /\ ~panicked
    /\ hpc[s] = "welcome"
    /\ hpc' = [hpc EXCEPT ![s] = "read"]
    /\ wpc' = [wpc EXCEPT ![s] = "recv"]
    /\ \E ok \in BOOLEAN :
         first' = IF ok THEN FirstWritten(s, Kind(WelcomeMessage)) ELSE first
    /\ UNCHANGED <<wmsg, queue, hubVars, connClosed, pollVars, extUnreg,
                   cmdVars, loopVars, out, opsVars>>

\* SendWebSocketMessage(welcome): on error Handle returns (the deferred
\* calls follow); on success the writer goroutine is started and Handle
\* enters the read loop
SendWelcome(s) ==
    /\ ~panicked
    /\ hpc[s] = "welcome"
    /\ \E ok \in BOOLEAN :
         IF ok
         THEN /\ hpc' = [hpc EXCEPT ![s] = "read"]
              /\ wpc' = [wpc EXCEPT ![s] = "recv"]
              /\ first' = FirstWritten(s, Kind(WelcomeMessage))
         ELSE /\ hpc' = [hpc EXCEPT ![s] = "unreg"]
              /\ UNCHANGED <<wpc, first>>
    /\ UNCHANGED <<wmsg, queue, hubVars, connClosed, pollVars, extUnreg,
                   cmdVars, loopVars, out, opsVars>>

\* conn.ReadJSON returns an error: break out of the read loop, then block
\* on <-writerDone
ReadError(s) ==
    /\ ~panicked
    /\ hpc[s] = "read"
    /\ hpc' = [hpc EXCEPT ![s] = "waitWriter"]
    /\ UNCHANGED <<wpc, wmsg, queue, hubVars, connClosed, pollVars, extUnreg,
                   cmdVars, loopVars, auxVars>>

\* conn.ReadJSON returns a message with a "command" field:
\* HandlePlayerCommand runs and Handle starts conn.WriteJSON of the
\* success or error response.  One step, the content of the message and of
\* the response left out: ReadMessage and Dispatch are the same iteration
\* with its content.
ReadCommand(s) ==
    /\ ~panicked
    /\ hpc[s] = "read"
    /\ hpc' = [hpc EXCEPT ![s] = "respond"]
    /\ UNCHANGED <<wpc, wmsg, queue, hubVars, connClosed, pollVars, extUnreg,
                   cmdVars, loopVars, auxVars>>

\* conn.ReadJSON returns the decoded message m
ReadMessage(s, m) ==
    /\ ~panicked
    /\ hpc[s] = "read"
    /\ hpc' = [hpc EXCEPT ![s] = "dispatch"]
    /\ cur' = [cur EXCEPT ![s] = m]
    /\ UNCHANGED <<wpc, wmsg, queue, hubVars, connClosed, pollVars, extUnreg,
                   connW, spawned, loopVars, auxVars>>

\* the body of the read loop that answers every session of the map with
\* the response, the connection of the sender included
DispatchToAll(s) ==
    /\ ~panicked
    /\ hpc[s] = "dispatch"
    /\ IF "command" \notin DOMAIN cur[s]
       THEN /\ hpc' = [hpc EXCEPT ![s] = "read"]
            /\ cur' = [cur EXCEPT ![s] = NoCmd]
            /\ UNCHANGED <<connW, spawned>>
       ELSE \E e \in SpawnErrors :
              LET r == HandlePlayerCommand(cur[s], e) IN
              /\ spawned' = [spawned EXCEPT ![s] = SpawnCall(r)]
              /\ connW' = [t \in Sessions |->
                             IF t = s \/ ClientID(t) \in DOMAIN clients
                             THEN IF r.err # NoErr
                                  THEN ErrorResponse(r.err)
                                  ELSE SuccessResponse(Sprint(cur[s].command))
                             ELSE connW[t]]
              /\ hpc' = [hpc EXCEPT ![s] = "respond"]
              /\ UNCHANGED cur
    /\ UNCHANGED <<wpc, wmsg, queue, hubVars, connClosed, pollVars, extUnreg,
                   loopVars, auxVars>>

\* the body of the read loop for the message in hand: without a "command"
\* field nothing is done; with one, HandlePlayerCommand runs (and waits for
\* the process it spawns) and Handle starts conn.WriteJSON of errorMsg or
\* successMsg on the connection of s
Dispatch(s) ==
    /\ ~panicked
    /\ hpc[s] = "dispatch"
    /\ IF "command" \notin DOMAIN cur[s]
       THEN /\ hpc' = [hpc EXCEPT ![s] = "read"]
            /\ cur' = [cur EXCEPT ![s] = NoCmd]
            /\ UNCHANGED <<connW, spawned>>
       ELSE \E e \in SpawnErrors :
              LET r == HandlePlayerCommand(cur[s], e) IN
              /\ spawned' = [spawned EXCEPT ![s] = SpawnCall(r)]
              /\ connW' = [connW EXCEPT ![s] =
                             IF r.err # NoErr
                             THEN ErrorResponse(r.err)
                             ELSE SuccessResponse(Sprint(cur[s].command))]
              /\ hpc' = [hpc EXCEPT ![s] = "respond"]
              /\ UNCHANGED cur
    /\ UNCHANGED <<wpc, wmsg, queue, hubVars, connClosed, pollVars, extUnreg,
                   loopVars, auxVars>>

\* conn.WriteJSON of the response returns (its error is ignored); back to
\* conn.ReadJSON
RespondDone(s) ==
    /\ ~panicked
    /\ hpc[s] = "respond"
    /\ hpc' = [hpc EXCEPT ![s] = "read"]
    /\ cur' = [cur EXCEPT ![s] = NoCmd]
    /\ connW' = [connW EXCEPT ![s] = NoMsg]
    /\ spawned' = [spawned EXCEPT ![s] = NoSpawn]
    /\ first' = FirstWritten(s, "response")
    /\ UNCHANGED <<wpc, wmsg, queue, hubVars, connClosed, pollVars, extUnreg,
                   loopVars, out, opsVars>>

\* Handle's conn.WriteJSON of the response runs while the writer goroutine
\* is inside its own conn.WriteJSON on the same connection.  The two calls
\* race; besides both returning (RespondDone, WriterWrite) the connection
\* may detect the concurrent write and panic in the goroutine that came
\* second.  A panic in the goroutine of Handle unwinds Handle: the
\* deferred calls run (the read loop and <-writerDone are skipped) and
\* net/http recovers it.
RespondPanic(s) ==
    /\ ~panicked
    /\ hpc[s] = "respond"
    /\ wpc[s] = "write"
    /\ hpc' = [hpc EXCEPT ![s] = "unreg"]
    /\ cur' = [cur EXCEPT ![s] = NoCmd]
    /\ connW' = [connW EXCEPT ![s] = NoMsg]
    /\ spawned' = [spawned EXCEPT ![s] = NoSpawn]
    /\ UNCHANGED <<wpc, wmsg, queue, hubVars, connClosed, pollVars, extUnreg,
                   loopVars, auxVars>>

\* <-writerDone: proceeds once the writer goroutine has returned
WaitWriterDone(s) ==
    /\ ~panicked
    /\ hpc[s] = "waitWriter"
    /\ wpc[s] = "exited"
    /\ hpc' = [hpc EXCEPT ![s] = "unreg"]
    /\ UNCHANGED <<wpc, wmsg, queue, hubVars, connClosed, pollVars, extUnreg,
                   cmdVars, loopVars, auxVars>>

\* Handle returns: the deferred UnregisterClient(client.ID) runs first
DeferUnregister(s) ==
    /\ ~panicked
    /\ hpc[s] = "unreg"
    /\ LockFree
    /\ UnregisterClient(ClientID(s))
    /\ hpc' = [hpc EXCEPT ![s] = "close"]
    /\ UNCHANGED <<wpc, wmsg, queue, connClosed, pollVars, extUnreg,
                   cmdVars, loopVars, auxVars>>

\* ... then the deferred conn.Close()
DeferConnClose(s) ==
    /\ ~panicked
    /\ hpc[s] = "close"
    /\ hpc' = [hpc EXCEPT ![s] = "done"]
    /\ connClosed' = [connClosed EXCEPT ![s] = TRUE]
    /\ UNCHANGED <<wpc, wmsg, queue, hubVars, pollVars, extUnreg,
                   cmdVars, loopVars, auxVars>>

\* ---- the writer goroutine of Handle ---------------------------------------
\* conn.WriteJSON(response) returns: nil, and the loop receives again (the
\* next buffered message if there is one); or an error, and the goroutine
\* returns, closing writerDone
WriterWriteResult(s, ok) ==
    /\ ~panicked
    /\ wpc[s] = "write"
    /\ IF ~ok
       THEN /\ wpc' = [wpc EXCEPT ![s] = "exited"]
            /\ UNCHANGED <<wmsg, queue, first>>
       ELSE /\ first' = FirstWritten(s, Kind(wmsg[s]))
            /\ IF queue[s] # <<>>
               THEN /\ wmsg' = [wmsg EXCEPT ![s] = Head(queue[s])]
                    /\ queue' = [queue EXCEPT ![s] = Tail(@)]
                    /\ UNCHANGED wpc
               ELSE /\ wpc' = [wpc EXCEPT ![s] = "recv"]
                    /\ wmsg' = [wmsg EXCEPT ![s] = NoMsg]
                    /\ UNCHANGED queue
    /\ UNCHANGED <<hpc, hubVars, connClosed, pollVars, extUnreg,
                   cmdVars, loopVars, opsVars>>

\* the write of the writer goroutine, the order of the writes left out
WriterWrite(s) ==
    \E ok \in BOOLEAN : WriterWriteResult(s, ok) /\ UNCHANGED out

\* the write of the writer goroutine overtakes the write before it, as
\* with `go conn.WriteJSON(response)` in the loop
WriterWriteOvertaking(s) ==
    \E ok \in BOOLEAN :
      /\ WriterWriteResult(s, ok)
      /\ out' = IF ~ok THEN out
                ELSE IF out[s] = <<>>
                THEN [out EXCEPT ![s] = <<wmsg[s].data.snapshot>>]
                ELSE [out EXCEPT ![s] =
                        SubSeq(@, 1, Len(@) - 1)
                          \o <<wmsg[s].data.snapshot, @[Len(@)]>>]

\* the writer goroutine that logs a failed write and goes on with the
\* next response (`continue`), as the earlier revision of Handle did
WriterWriteContinue(s) ==
    /\ ~panicked
    /\ wpc[s] = "write"
    /\ \E ok \in BOOLEAN :
         /\ first' = IF ok THEN FirstWritten(s, Kind(wmsg[s])) ELSE first
         /\ out' = IF ok
                   THEN [out EXCEPT ![s] = Append(@, wmsg[s].data.snapshot)]
                   ELSE out
    /\ wpc' = [wpc EXCEPT ![s] = "recv"]
    /\ wmsg' = [wmsg EXCEPT ![s] = NoMsg]
    /\ UNCHANGED <<hpc, queue, hubVars, connClosed, pollVars, extUnreg,
                   cmdVars, loopVars, opsVars>>

\* the write of the writer goroutine, with the order of the writes on the
\* connection recorded: conn.WriteJSON returns before the loop receives
\* the next response
WriterWriteInOrder(s) ==
    \E ok \in BOOLEAN :
      /\ WriterWriteResult(s, ok)
      /\ out' = IF ok
                THEN [out EXCEPT ![s] = Append(@, wmsg[s].data.snapshot)]
                ELSE out

\* the same race, detected in the writer goroutine: nothing recovers the
\* panic and the process dies
WriterPanic(s) ==
    /\ ~panicked
    /\ wpc[s] = "write"
    /\ hpc[s] = "respond"
    /\ panicked' = TRUE
    /\ UNCHANGED <<hpc, wpc, wmsg, queue, clients, closes, connClosed,
                   pollVars, extUnreg, cmdVars, loopVars, auxVars>>

\* `for response := range client.Send` ends: the channel is closed and
\* drained; the goroutine returns, closing writerDone
WriterRangeEnd(s) ==
    /\ ~panicked
    /\ wpc[s] = "recv"
    /\ closes[s] >= 1
    /\ queue[s] = <<>>
    /\ wpc' = [wpc EXCEPT ![s] = "exited"]
    /\ UNCHANGED <<hpc, wmsg, queue, hubVars, connClosed, pollVars, extUnreg,
                   cmdVars, loopVars, auxVars>>

\* ---- draining a queue: CleanClientBuffer, CleanAllBuffers ----------------
\* a caller of the hub calls CleanClientBuffer(id), with any id
CleanCall(id) ==
    /\ ~panicked
    /\ cleanN < MaxCleans
    /\ cleanN' = cleanN + 1
    /\ cleanQ' = cleanQ \cup {id}
    /\ UNCHANGED <<hpc, wpc, wmsg, queue, hubVars, connClosed, pollVars,
                   extUnreg, cmdVars, loopVars, wireVars, lockVars,
                   earlierVars,
                   cpc, ctarget,
                   cleaned>>

\* CleanAllBuffers: under clientsMu.RLock, `go CleanClientBuffer(clientID)`
\* for every key of clients
CleanAllBuffers ==
    /\ ~panicked
    /\ cleanN < MaxCleans
    /\ cleanN' = cleanN + 1
    /\ cleanQ' = cleanQ \cup DOMAIN clients
    /\ UNCHANGED <<hpc, wpc, wmsg, queue, hubVars, connClosed, pollVars,
                   extUnreg, cmdVars, loopVars, wireVars, lockVars,
                   earlierVars,
                   cpc, ctarget,
                   cleaned>>

\* CleanClientBuffer(id): client, exists := clients[clientID] under
\* clientsMu.RLock, released before the loop; return if the id is absent
CleanLookup(id) ==
    /\ ~panicked
    /\ cpc = "idle"
    /\ id \in cleanQ
    /\ cleanQ' = cleanQ \ {id}
    /\ IF id \in DOMAIN clients
       THEN cpc' = "drain" /\ ctarget' = clients[id]
       ELSE UNCHANGED <<cpc, ctarget>>
    /\ UNCHANGED <<hpc, wpc, wmsg, queue, hubVars, connClosed, pollVars,
                   extUnreg, cmdVars, loopVars, wireVars, lockVars,
                   earlierVars, cleanN,
                   cleaned>>

\* the loop of CleanClientBuffer takes `case <-client.Send`: the case is
\* ready when the buffer holds a response and when the channel is closed
\* (the receive then returns the zero value at once); the loop goes on.
\* The non-blocking send of BroadcastMessage never meets this non-blocking
\* receive: neither waits on the channel.
CleanReceive ==
    /\ ~panicked
    /\ cpc = "drain"
    /\ queue[ctarget] # <<>> \/ closes[ctarget] >= 1
    /\ IF queue[ctarget] # <<>>
       THEN /\ queue' = [queue EXCEPT ![ctarget] = Tail(@)]
            /\ cleaned' = cleaned \cup {"message"}
       ELSE /\ cleaned' = cleaned \cup {"closed"}
            /\ UNCHANGED queue
    /\ UNCHANGED <<hpc, wpc, wmsg, hubVars, connClosed, pollVars,
                   extUnreg, cmdVars, loopVars, wireVars, lockVars,
                   earlierVars,
                   cleanQ, cleanN,
                   cpc, ctarget>>

\* the loop takes `default`: no receive is ready; CleanClientBuffer returns
CleanDefault ==
    /\ ~panicked
    /\ cpc = "drain"
    /\ queue[ctarget] = <<>>
    /\ closes[ctarget] = 0
    /\ cpc' = "idle"
    /\ ctarget' = 0
    /\ UNCHANGED <<hpc, wpc, wmsg, queue, hubVars, connClosed, pollVars,
                   extUnreg, cmdVars, loopVars, wireVars, lockVars,
                   earlierVars,
                   cleanQ, cleanN,
                   cleaned>>

\* ---- the lock clientsMu (sync.RWMutex) ------------------------------------
\* everything but the lock and its callers
progVars == <<hpc, wpc, wmsg, queue, hubVars, connClosed, pollVars, extUnreg,
              cmdVars, loopVars, wireVars, cleanVars, earlierVars>>

\* every operation takes the read lock
LockModeAllRead(op) == "read"

\* the lock each operation of the hub takes: clientsMu.Lock in
\* RegisterClient and UnregisterClient, clientsMu.RLock in
\* BroadcastMessage, GetClientCount and CleanAllBuffers
LockMode(op) ==
    IF op \in {"RegisterClient", "UnregisterClient"} THEN "write" ELSE "read"

\* caller p calls the operation op of the hub and reaches its Lock or RLock
LockCall(p, op) ==
    /\ lpc[p] = "out"
    /\ lop' = [lop EXCEPT ![p] = op]
    /\ lpc' = [lpc EXCEPT ![p] = "wait"]
    /\ UNCHANGED <<rw, progVars>>

\* RLock returns: no writer holds the lock or has announced itself
RLockAcquire(p) ==
    /\ lpc[p] = "wait"
    /\ LockMode(lop[p]) = "read"
    /\ rw.writer = "free"
    /\ rw' = [rw EXCEPT !.readers = @ + 1]
    /\ lpc' = [lpc EXCEPT ![p] = "in"]
    /\ UNCHANGED <<lop, progVars>>

\* Lock, first half: the writer gets in line alone and holds new readers off
LockAnnounce(p) ==
    /\ lpc[p] = "wait"
    /\ LockMode(lop[p]) = "write"
    /\ rw.writer = "free"
    /\ rw' = [rw EXCEPT !.writer = "pending"]
    /\ lpc' = [lpc EXCEPT ![p] = "announced"]
    /\ UNCHANGED <<lop, progVars>>

\* Lock returns: the readers that were inside have left
LockAcquire(p) ==
    /\ lpc[p] = "announced"
    /\ rw.readers = 0
    /\ rw' = [rw EXCEPT !.writer = "held"]
    /\ lpc' = [lpc EXCEPT ![p] = "in"]
    /\ UNCHANGED <<lop, progVars>>

\* an operation that returns without its RUnlock
LockReleaseNoRUnlock(p) ==
    /\ lpc[p] = "in"
    /\ rw' = IF LockMode(lop[p]) = "read"
             THEN rw
             ELSE [rw EXCEPT !.writer = "free"]
    /\ lpc' = [lpc EXCEPT ![p] = "out"]
    /\ lop' = [lop EXCEPT ![p] = ""]
    /\ UNCHANGED progVars

\* RUnlock or Unlock: the operation leaves the critical section and returns
LockRelease(p) ==
    /\ lpc[p] = "in"
    /\ rw' = IF LockMode(lop[p]) = "read"
             THEN [rw EXCEPT !.readers = @ - 1]
             ELSE [rw EXCEPT !.writer = "free"]
    /\ lpc' = [lpc EXCEPT ![p] = "out"]
    /\ lop' = [lop EXCEPT ![p] = ""]
    /\ UNCHANGED progVars

\* ---- a direct caller of the hub -------------------------------------------
\* UnregisterClient(id) called by a caller other than Handle's defer, with
\* any id: one that was never registered, one already unregistered, or one
\* that is still registered
HubUnregister(id) ==
    /\ ~panicked
    /\ LockFree
    /\ UnregisterClient(id)
    /\ extUnreg' = IF id \in DOMAIN clients THEN extUnreg
                   ELSE IF \E s \in Sessions :
                             ClientID(s) = id /\ closes[s] >= 1
                   THEN extUnreg \cup {"again"}
                   ELSE extUnreg \cup {"never"}
    /\ UNCHANGED <<hpc, wpc, wmsg, queue, connClosed, pollVars,
                   cmdVars, loopVars, auxVars>>

\* ---- specifications -------------------------------------------------------
HandleStep(s) ==
    \/ Upgrade(s)
    \/ HandleRegister(s)
    \/ SendWelcome(s)
    \/ ReadError(s)
    \/ ReadCommand(s)
    \/ RespondDone(s)
    \/ RespondPanic(s)
    \/ WaitWriterDone(s)
    \/ DeferUnregister(s)
    \/ DeferConnClose(s)

WriterStep(s) ==
    \/ WriterWrite(s)
    \/ WriterPanic(s)
    \/ WriterRangeEnd(s)

PollerStep ==
    \/ BroadcastBegin
    \/ \E k \in Ids : BroadcastStep(k)
    \/ BroadcastReturn

Next ==
    \/ \E s \in Sessions : HandleStep(s)
    \/ \E s \in Sessions : WriterStep(s)
    \/ PollerStep

Spec == Init /\ [][Next]_vars

\* The goroutines are scheduled fairly: a statement that can run does run.
\* What the peer does (connecting, sending a command, disconnecting) and
\* whether the poller publishes again are not forced.
Fairness ==
    /\ \A s \in Sessions :
         /\ WF_vars(HandleRegister(s))
         /\ WF_vars(SendWelcome(s))
         /\ WF_vars(RespondDone(s))
         /\ WF_vars(WaitWriterDone(s))
         /\ WF_vars(DeferUnregister(s))
         /\ WF_vars(DeferConnClose(s))
         /\ WF_vars(WriterWrite(s))
         /\ WF_vars(WriterRangeEnd(s))
    /\ WF_vars(\E k \in Ids : BroadcastStep(k))
    /\ WF_vars(BroadcastReturn)

FairSpec == Spec /\ Fairness

\* the steps of Handle while the peers send no command: nothing but the
\* writer goroutine writes on a connection after the welcome
WireHandleStep(s) ==
    \/ Upgrade(s)
    \/ HandleRegister(s)
    \/ SendWelcome(s)
    \/ ReadError(s)
    \/ WaitWriterDone(s)
    \/ DeferUnregister(s)
    \/ DeferConnClose(s)

\* BroadcastMessage is called, in the runs with direct hub callers
HubBroadcastBegin == bcastN < MaxHubBroadcasts /\ BroadcastBegin

\* the connections, while their peers send no command, together with
\* direct callers of UnregisterClient
HubNext ==
    \/ \E s \in Sessions : WireHandleStep(s)
    \/ \E s \in Sessions : WriterWrite(s) \/ WriterRangeEnd(s)
    \/ HubBroadcastBegin
    \/ \E k \in Ids : BroadcastStep(k)
    \/ BroadcastReturn
    \/ \E id \in Ids : HubUnregister(id)

SpecHub == Init /\ [][HubNext]_vars

\* the goroutine of poller.Handle alone, before the first connection: the
\* loop of Poller, its ticker, the owner of its quit channel, and the task
LoopNext ==
    \/ PollerStart
    \/ TickerFire
    \/ QuitSignal
    \/ PollerTick
    \/ PollerQuit
    \/ PollGetInfo
    \/ PollSkip
    \/ PollPublish
    \/ PollFnReturn

SpecPoller == Init /\ [][LoopNext]_vars

\* the steps of Handle with the content of the messages tracked, while
\* the poller publishes nothing (GetPlayerInfo fails while no media player
\* runs): every writer goroutine stays parked on its queue
CmdHandleStep(s) ==
    \/ Upgrade(s)
    \/ HandleRegister(s)
    \/ SendWelcome(s)
    \/ ReadError(s)
    \/ \E m \in Inbound : ReadMessage(s, m)
    \/ Dispatch(s)
    \/ RespondDone(s)
    \/ DeferUnregister(s)
    \/ DeferConnClose(s)

\* the connections, the commands of their peers and the responses
CmdNext == \E s \in Sessions : CmdHandleStep(s)

SpecCmd == Init /\ [][CmdNext]_vars

\* the connections, their writer goroutines with the order of the writes
\* recorded, and the poller
WireNext ==
    \/ \E s \in Sessions : WireHandleStep(s)
    \/ \E s \in Sessions : WriterWriteInOrder(s)
    \/ PollerStep

SpecWire == Init /\ [][WireNext]_vars

\* the calls of CleanClientBuffer and CleanAllBuffers
CleanStep ==
    \/ \E id \in Ids : CleanCall(id)
    \/ CleanAllBuffers
    \/ \E id \in Ids : CleanLookup(id)
    \/ CleanReceive
    \/ CleanDefault

\* the steps of Handle of a connection whose peer stays connected and
\* sends nothing: the session ends only if its welcome cannot be written
CleanHandleStep(s) ==
    \/ Upgrade(s)
    \/ HandleRegister(s)
    \/ SendWelcome(s)
    \/ DeferUnregister(s)
    \/ DeferConnClose(s)

\* the connections, their writer goroutines, the poller, and callers of
\* the hub that drain queues
CleanNext ==
    \/ \E s \in Sessions : CleanHandleStep(s)
    \/ \E s \in Sessions : WriterWrite(s)
    \/ HubBroadcastBegin
    \/ \E k \in Ids : BroadcastStep(k)
    \/ BroadcastReturn
    \/ CleanStep

SpecClean == Init /\ [][CleanNext]_vars

\* goroutines calling the operations of the hub in any order, followed
\* through clientsMu
LockNext ==
    \E p \in Callers :
      \/ \E op \in HubOps : LockCall(p, op)
      \/ RLockAcquire(p)
      \/ LockAnnounce(p)
      \/ LockAcquire(p)
      \/ LockRelease(p)

SpecLock == Init /\ [][LockNext]_vars

\* A goroutine inside the lock runs on and leaves it.  sync.RWMutex admits
\* the readers that wait when the writer unlocks, and sync.Mutex hands the
\* writer side to a writer that has waited long, so a caller whose turn
\* comes again and again does get in.  Nothing forces a caller to call.
LockFairness ==
    \A p \in Callers :
      /\ WF_vars(LockRelease(p))
      /\ WF_vars(LockAcquire(p))
      /\ SF_vars(RLockAcquire(p))
      /\ SF_vars(LockAnnounce(p))

FairLock == SpecLock /\ LockFairness

\* the program as main starts it: the media poller of poller.Handle, whose
\* quit channel nobody holds, and the connections with their writers
MediaNext ==
    \/ HandleStart
    \/ TickerFire
    \/ PollerTick
    \/ PollGetInfo
    \/ PollSkip
    \/ PollPublish
    \/ PollFnReturn
    \/ \E k \in Ids : BroadcastStep(k)
    \/ BroadcastReturn
    \/ \E s \in Sessions : CleanHandleStep(s)
    \/ \E s \in Sessions : WriterWrite(s)

SpecMedia == Init /\ [][MediaNext]_vars

\* ---- the shared-channel revision: one channel for every connection ------
\* the state of the head revision, which the earlier revisions leave alone
headVars == <<hpc, wpc, wmsg, queue, hubVars, connClosed, pollVars, extUnreg,
              cmdVars, loopVars, wireVars, cleanVars, lockVars>>

\* GetChannel has returned to the Handle of s, and its writer goroutine runs
Returned(s) == shpc[s] \in {"range", "write"}

\* Handle up to its GetChannel call: the upgrade and the welcome message
\* succeeded
SharedHandle(s) ==
    /\ shpc[s] = "idle"
    /\ shpc' = [shpc EXCEPT ![s] = "get"]
    /\ UNCHANGED <<sharedChannel, chh, received, sentN, headVars, wsVars>>

\* GetChannel: mu.RLock(), which admits any number of callers.  Nothing of
\* this revision calls CloseChannel, the one function taking mu.Lock, so
\* RLock never waits
GetChannelRLock(s) ==
    /\ shpc[s] = "get"
    /\ shpc' = [shpc EXCEPT ![s] = "check"]
    /\ UNCHANGED <<sharedChannel, chh, received, sentN, headVars, wsVars>>

\* GetChannel: if sharedChannel == nil
GetChannelCheck(s) ==
    /\ shpc[s] = "check"
    /\ shpc' = [shpc EXCEPT ![s] = IF sharedChannel = 0 THEN "create"
                                                       ELSE "ret"]
    /\ chh' = [chh EXCEPT ![s] = sharedChannel]
    /\ UNCHANGED <<sharedChannel, received, sentN, headVars, wsVars>>

\* GetChannel: sharedChannel = make(chan models.ServerResponse)
GetChannelCreate(s) ==
    /\ shpc[s] = "create"
    /\ sharedChannel' = s
    /\ chh' = [chh EXCEPT ![s] = s]
    /\ shpc' = [shpc EXCEPT ![s] = "ret"]
    /\ UNCHANGED <<received, sentN, headVars, wsVars>>

\* GetChannel: return sharedChannel, then the deferred mu.RUnlock(); Handle
\* starts its writer goroutine on the channel returned.  The variable is
\* written by other callers under the same read lock, so the value returned
\* is the one this call loaded or made, or the one the variable holds now
GetChannelReturn(s) ==
    /\ shpc[s] = "ret"
    /\ \E ch \in {chh[s], sharedChannel} :
         chh' = [chh EXCEPT ![s] = ch]
    /\ shpc' = [shpc EXCEPT ![s] = "range"]
    /\ UNCHANGED <<sharedChannel, received, sentN, headVars, wsVars>>

\* the writer goroutines blocked in the receive of  for response := range chh
\* on the channel ch
Ranging(ch) == {s \in Sessions : shpc[s] = "range" /\ chh[s] = ch}

\* every goroutine ranging over the channel receives the message
SharedReceiveAll(n, ch) ==
    /\ Ranging(ch) # {}
    /\ shpc' = [s \in Sessions |->
                  IF s \in Ranging(ch) THEN "write" ELSE shpc[s]]
    /\ received' = [s \in Sessions |->
                      IF s \in Ranging(ch) THEN received[s] \cup {n}
                                           ELSE received[s]]

\* the send  case ch <- msg  on the unbuffered channel ch: one of the
\* goroutines blocked in the receive takes the message
SharedReceive(n, ch) ==
    \E s \in Ranging(ch) :
      /\ shpc' = [shpc EXCEPT ![s] = "write"]
      /\ received' = [received EXCEPT ![s] = @ \cup {n}]

\* WriteChannelMessage of the shared-channel revision: nothing on a nil
\* channel; else a send that does not wait, and the default case when no
\* goroutine is receiving
SharedWriteChannelMessage ==
    /\ sentN < MaxBroadcasts
    /\ sentN' = sentN + 1
    /\ IF sharedChannel # 0 /\ Ranging(sharedChannel) # {}
         THEN SharedReceive(sentN + 1, sharedChannel)
         ELSE UNCHANGED <<shpc, received>>
    /\ UNCHANGED <<sharedChannel, chh, headVars, wsVars>>

\* the writer goroutine: conn.WriteJSON(response), and  continue  whether it
\* failed or not
SharedWriterWrite(s) ==
    /\ shpc[s] = "write"
    /\ shpc' = [shpc EXCEPT ![s] = "range"]
    /\ UNCHANGED <<sharedChannel, chh, received, sentN, headVars, wsVars>>

SharedNext ==
    \/ \E s \in Sessions :
         \/ SharedHandle(s)
         \/ GetChannelRLock(s)
         \/ GetChannelCheck(s)
         \/ GetChannelCreate(s)
         \/ GetChannelReturn(s)
         \/ SharedWriterWrite(s)
    \/ SharedWriteChannelMessage

SpecShared == Init /\ [][SharedNext]_vars

\* ---- the wsHandler revision: one writer and one poller per connection ---
\* wsHandler up to its read loop: the upgrade succeeded, messages and
\* quitPlayerPoll are made, the writer goroutine and the player poller run
WsHandlerStart(s) ==
    /\ reader[s] = "idle"
    /\ reader' = [reader EXCEPT ![s] = "read"]
    /\ writer' = [writer EXCEPT ![s] = "range"]
    /\ poller' = [poller EXCEPT ![s] = "select"]
    /\ UNCHANGED <<messages, quitPlayerPoll, headVars, sharedVars>>

\* conn.ReadMessage fails: break
WsReadError(s) ==
    /\ reader[s] = "read"
    /\ reader' = [reader EXCEPT ![s] = "closeQuit"]
    /\ UNCHANGED <<writer, poller, messages, quitPlayerPoll, headVars,
                   sharedVars>>

\* conn.ReadMessage returns a text message: whatever it holds (invalid JSON,
\* player_info, an allowed command or another), the branch taken builds a
\* response and reaches a statement  messages <- response
WsReadText(s) ==
    /\ reader[s] = "read"
    /\ reader' = [reader EXCEPT ![s] = "send"]
    /\ UNCHANGED <<writer, poller, messages, quitPlayerPoll, headVars,
                   sharedVars>>

\* messages <- response  in the read loop: messages is unbuffered, so the
\* send completes when the writer goroutine is at its receive
WsReaderSend(s) ==
    /\ reader[s] = "send"
    /\ messages[s] = "open"
    /\ writer[s] = "range"
    /\ reader' = [reader EXCEPT ![s] = "read"]
    /\ writer' = [writer EXCEPT ![s] = "write"]
    /\ UNCHANGED <<poller, messages, quitPlayerPoll, headVars, sharedVars>>

\* after the loop: close(quitPlayerPoll)
WsCloseQuit(s) ==
    /\ reader[s] = "closeQuit"
    /\ quitPlayerPoll' = [quitPlayerPoll EXCEPT ![s] = "closed"]
    /\ reader' = [reader EXCEPT ![s] = "closeMessages"]
    /\ UNCHANGED <<writer, poller, messages, headVars, sharedVars>>

\* close(messages), then wsHandler returns and the deferred conn.Close runs
WsCloseMessages(s) ==
    /\ reader[s] = "closeMessages"
    /\ messages' = [messages EXCEPT ![s] = "closed"]
    /\ reader' = [reader EXCEPT ![s] = "done"]
    /\ UNCHANGED <<writer, poller, quitPlayerPoll, headVars, sharedVars>>

\* the writer goroutine: conn.WriteJSON(resp); it returns on an error
WsWriterWrite(s) ==
    /\ writer[s] = "write"
    /\ \E ok \in BOOLEAN :
         writer' = [writer EXCEPT ![s] = IF ok THEN "range" ELSE "returned"]
    /\ UNCHANGED <<reader, poller, messages, quitPlayerPoll, headVars,
                   sharedVars>>

\* the writer goroutine: the range over messages ends when it is closed
WsWriterRangeEnd(s) ==
    /\ writer[s] = "range"
    /\ messages[s] = "closed"
    /\ writer' = [writer EXCEPT ![s] = "returned"]
    /\ UNCHANGED <<reader, poller, messages, quitPlayerPoll, headVars,
                   sharedVars>>

\* the player poller: case <-ticker.C, then getPlayerInfo.  The select picks
\* this case also when quitPlayerPoll is closed and a tick is pending
WsPollerTick(s) ==
    /\ poller[s] = "select"
    /\ poller' = [poller EXCEPT ![s] = "send"]
    /\ UNCHANGED <<reader, writer, messages, quitPlayerPoll, headVars,
                   sharedVars>>

\* the player poller: case <-quitPlayerPoll: return
WsPollerQuit(s) ==
    /\ poller[s] = "select"
    /\ quitPlayerPoll[s] = "closed"
    /\ poller' = [poller EXCEPT ![s] = "returned"]
    /\ UNCHANGED <<reader, writer, messages, quitPlayerPoll, headVars,
                   sharedVars>>

\* the player poller: messages <- ServerResponse{...}, taken by the writer
WsPollerSend(s) ==
    /\ poller[s] = "send"
    /\ messages[s] = "open"
    /\ writer[s] = "range"
    /\ poller' = [poller EXCEPT ![s] = "select"]
    /\ writer' = [writer EXCEPT ![s] = "write"]
    /\ UNCHANGED <<reader, messages, quitPlayerPoll, headVars, sharedVars>>

\* the player poller: its send finds messages closed, or messages is closed
\* while the send waits; both panic with "send on closed channel"
WsPollerSendClosed(s) ==
    /\ poller[s] = "send"
    /\ messages[s] = "closed"
    /\ poller' = [poller EXCEPT ![s] = "panic"]
    /\ UNCHANGED <<reader, writer, messages, quitPlayerPoll, headVars,
                   sharedVars>>

WsNext ==
    \E s \in Sessions :
      \/ WsHandlerStart(s)
      \/ WsReadError(s)
      \/ WsReadText(s)
      \/ WsReaderSend(s)
      \/ WsCloseQuit(s)
      \/ WsCloseMessages(s)
      \/ WsWriterWrite(s)
      \/ WsWriterRangeEnd(s)
      \/ WsPollerTick(s)
      \/ WsPollerQuit(s)
      \/ WsPollerSend(s)
      \/ WsPollerSendClosed(s)

SpecWs == Init /\ [][WsNext]_vars

\* A goroutine that can run does run, and the ticker keeps ticking.  A
\* sender blocked on messages is queued by the channel and served before
\* senders that come later, so a send that can complete again and again
\* does complete.  Nothing forces the client to send or to disconnect.
WsFairness ==
    \A s \in Sessions :
      /\ SF_vars(WsReaderSend(s))
      /\ SF_vars(WsPollerSend(s))
      /\ WF_vars(WsCloseQuit(s))
      /\ WF_vars(WsCloseMessages(s))
      /\ WF_vars(WsWriterWrite(s))
      /\ WF_vars(WsWriterRangeEnd(s))
      /\ WF_vars(WsPollerTick(s) \/ WsPollerQuit(s))
      /\ WF_vars(WsPollerSendClosed(s))

FairWs == SpecWs /\ WsFairness

\* ---- properties -----------------------------------------------------------
\* the range loop of BroadcastMessage is over and the call is about to return
AtReturn == bpc = "loop" /\ todo = {}

\* the values of the map clients
Registered == {clients[k] : k \in DOMAIN clients}

\* C1: broadcast fairness.  When one BroadcastMessage call returns, every
\* session that was registered and could accept a message at the time of
\* the call has been sent the message: all of them, never a strict subset.
C1_BroadcastFairness ==
    AtReturn => \A s \in bAccept : s \in bSent /\ s \in Registered

\* a broadcast that found two or more sessions able to accept returns
C1_Witness ==
    AtReturn /\ Cardinality(bAccept) >= 2 /\ bAccept \subseteq bSent

\* C2: non-blocking broadcast under backpressure.  Inside the loop of
\* BroadcastMessage the next statement of the running process can always
\* execute, whatever the sessions are doing, so the call returns; and a call
\* that dropped the message for some session visited every registered
\* session once, dropped it only for sessions that could not accept it and
\* sent it to every session that could.
C2_NonBlockingBroadcast ==
    /\ (bpc = "loop" /\ ~panicked) => ENABLED PollerStep
    /\ (AtReturn /\ bDropped # {}) =>
          /\ bSent \cup bDropped = Registered
          /\ bSent \cap bDropped = {}
          /\ bDropped \cap bAccept = {}

\* a broadcast returns having dropped for one session and sent to another
C2_Witness == AtReturn /\ bDropped # {} /\ bSent # {}

\* the teardown of session s is complete
TornDown(s) ==
    /\ ClientID(s) \notin DOMAIN clients
    /\ closes[s] = 1
    /\ wpc[s] = "exited"
    /\ connClosed[s]

\* C3: teardown liveness.  Whenever the reader loop of Handle has exited
\* (Handle is at <-writerDone), the session is eventually unregistered, its
\* queue closed, its writer gone and its transport closed, or the process
\* has died; also when no further broadcast is sent.
C3_TeardownLiveness ==
    \A s \in Sessions :
        (hpc[s] = "waitWriter") ~> (panicked \/ TornDown(s))

\* C4: teardown order.  (1) unregister and close the queue, (2) the writer
\* observes the closure and exits, (3) the transport is closed: Handle
\* waits for the writer only after the session is unregistered and its
\* queue closed, and the transport is closed only after both.
C4_TeardownOrder ==
    \A s \in Sessions :
        /\ hpc[s] = "waitWriter" =>
              ClientID(s) \notin DOMAIN clients /\ closes[s] = 1
        /\ connClosed[s] =>
              ClientID(s) \notin DOMAIN clients /\ ~WriterAlive(s)

C6_RegistryIffWriter ==
    \A s \in Sessions : (ClientID(s) \in DOMAIN clients) <=> WriterAlive(s)

\* C7: a fatal writer error triggers teardown.  When the writer goroutine
\* has returned, the session is eventually unregistered (or the process has
\* died), also when the reader never gets a read error.
C7_WriterErrorTeardown ==
    \A s \in Sessions :
        (wpc[s] = "exited") ~> (panicked \/ ClientID(s) \notin DOMAIN clients)

\* C8: transport exclusivity.  In no state are the writer goroutine and the
\* goroutine of Handle both inside conn.WriteJSON on the same connection.
C8_TransportExclusive ==
    \A s \in Sessions : ~(wpc[s] = "write" /\ hpc[s] = "respond")

\* C9: idempotent unregister.  A direct UnregisterClient(id) call for an id
\* that is not in the map (already unregistered, or never registered) does
\* not panic and leaves the map and every queue as they were.
C9_IdempotentUnregister ==
    [][\A id \in Ids :
          (HubUnregister(id) /\ id \notin DOMAIN clients) =>
             /\ clients' = clients
             /\ closes' = closes
             /\ queue' = queue
             /\ ~panicked']_vars

\* UnregisterClient was called for an id already unregistered and for an id
\* never registered, and the process is running
C9_Witness ==
    /\ {"again", "never"} \subseteq extUnreg
    /\ ~panicked

\* RegisterClient(client of s) has returned
RegisterDone(s) ==
    hpc[s] \in {"welcome", "read", "dispatch", "respond", "waitWriter",
                "unreg", "close", "done"}

\* Handle's UnregisterClient(id of s) has returned
UnregisterDone(s) == hpc[s] \in {"close", "done"}

\* C10: session count accuracy.  In every interleaving of the RegisterClient
\* and UnregisterClient calls of the connections, GetClientCount is the
\* number M of completed registers minus the number K of completed
\* unregisters.
C10_CountAccuracy ==
    GetClientCount = Cardinality({s \in Sessions : RegisterDone(s)})
                     - Cardinality({s \in Sessions : UnregisterDone(s)})

\* two registers and one unregister have completed: the count is 1
C10_Witness ==
    /\ Cardinality({s \in Sessions : RegisterDone(s)}) = 2
    /\ Cardinality({s \in Sessions : UnregisterDone(s)}) = 1
    /\ GetClientCount = 1

\* Handle of s has dispatched the message in hand, a message with a string
\* in its "command" field, and is writing the response
Dispatched(s) ==
    /\ hpc[s] = "respond"
    /\ "command" \in DOMAIN cur[s]
    /\ cur[s].command.type = "string"

\* C11: command allowlist enforcement.  For every command string that is
\* not in the allowlist, the dispatch yields an error response and invokes
\* no external executor: no SpawnProcess call is made.
C11_AllowlistEnforced ==
    \A s \in Sessions :
        (Dispatched(s) /\ cur[s].command.val \notin Allowlist) =>
            /\ connW[s].status = "error"
            /\ spawned[s] = NoSpawn

\* the commands "reboot" and "Play" (another case than the label) have been
\* dispatched and answered with an error
C11_Witness ==
    \E s, t \in Sessions :
        /\ Dispatched(s) /\ cur[s].command.val = "reboot"
        /\ Dispatched(t) /\ cur[t].command.val = "Play"
        /\ connW[s].status = "error" /\ connW[t].status = "error"

\* the command string Handle of s has dispatched
Name(s) == cur[s].command.val

\* C12 as stated: an unknown command is answered {status: error, message:
\* "unknown command: <name>"}, a recognized command whose execution fails
\* {status: error, message: <failure detail>}, a recognized command that
\* succeeds {status: success, command: <name>}.
C12_ShapeAsStated ==
    \A s \in Sessions :
        Dispatched(s) =>
            IF Name(s) \notin Allowlist
            THEN /\ connW[s].status = "error"
                 /\ connW[s].message = "unknown command: " \o Name(s)
            ELSE IF spawned[s].err # NoErr
            THEN /\ connW[s].status = "error"
                 /\ connW[s].message = spawned[s].err
            ELSE /\ connW[s].status = "success"
                 /\ "command" \in DOMAIN connW[s]
                 /\ connW[s].command = Name(s)

\* C12, amended: every response to a command has the three fields status,
\* message and data.  An unknown command is answered {status: error,
\* message: "command_failed", data: {error: "unknown command: <name>"}}, a
\* recognized command whose execution fails {status: error, message:
\* "command_failed", data: {error: <failure detail>}}, a recognized command
\* that succeeds {status: success, message: "command_executed", data:
\* {command: <name>}}.
C12_ResponseShape ==
    \A s \in Sessions :
        Dispatched(s) =>
            connW[s] =
                IF Name(s) \notin Allowlist
                THEN [status |-> "error", message |-> "command_failed",
                      data |-> [error |-> "unknown command: " \o Name(s)]]
                ELSE IF spawned[s].err # NoErr
                THEN [status |-> "error", message |-> "command_failed",
                      data |-> [error |-> spawned[s].err]]
                ELSE [status |-> "success", message |-> "command_executed",
                      data |-> [command |-> Name(s)]]

\* one session is being answered for a command that succeeded, another for
\* a recognized command whose execution failed
C12_Witness ==
    \E s, t \in Sessions :
        /\ Dispatched(s) /\ connW[s].status = "success"
        /\ Dispatched(t) /\ Name(t) \in Allowlist
        /\ spawned[t].err # NoErr /\ connW[t].status = "error"

\* C13: command responses are session-local.  The step in which Handle of
\* S dispatches a command starts the write of the success or error
\* response on the connection of S, and it writes nothing on the
\* connection of any other session and puts nothing on any queue.
C13_SessionLocal ==
    [][\A s \in Sessions :
          (hpc[s] = "dispatch" /\ hpc'[s] # "dispatch"
             /\ "command" \in DOMAIN cur[s]) =>
                /\ connW'[s] \in Responses
                /\ \A t \in Sessions \ {s} : connW'[t] = connW[t]
                /\ queue' = queue
                /\ wmsg' = wmsg]_vars

\* a command of one session is being answered while another session is
\* registered, its writer parked on its queue, and has nothing written to
\* it by Handle
C13_Witness ==
    \E s, t \in Sessions :
        /\ s # t
        /\ Dispatched(s) /\ connW[s] \in Responses
        /\ ClientID(t) \in DOMAIN clients /\ wpc[t] = "recv"
        /\ hpc[t] = "read" /\ connW[t] = NoMsg

\* the message has no "command" field, or one that is not a string
InvalidShape(m) == "command" \notin DOMAIN m \/ m.command.type # "string"

\* C14: every inbound message with an invalid shape produces an error
\* response and never a crash.  When Handle of s has gone through the body
\* of the read loop for a message with no "command" field, or with a
\* "command" that is not a string, it is writing an error response that
\* carries "invalid command format" to s and the process has not panicked
\* (the read loop goes on once the write returns).
C14_InvalidShapeAnswered ==
    [][\A s \in Sessions :
          (hpc[s] = "dispatch" /\ hpc'[s] # "dispatch"
             /\ InvalidShape(cur[s])) =>
                /\ ~panicked'
                /\ hpc'[s] = "respond"
                /\ connW'[s].status = "error"
                /\ connW'[s].data.error = "invalid command format"]_vars

\* C15 as stated: the command names that reach an executor are exactly
\* play, pause, player_toggle, play-pause, next, player_next, prev,
\* player_prev, volume_up, volume_down, stop, matched case-sensitively, and
\* the two names of each alias pair (player_toggle/play-pause,
\* next/player_next, prev/player_prev) dispatch to the same action.
C15_AllowlistAsStated ==
    LET documented == {"play", "pause", "player_toggle", "play-pause",
                       "next", "player_next", "prev", "player_prev",
                       "volume_up", "volume_down", "stop"}
        aliases == {<<"player_toggle", "play-pause">>,
                    <<"next", "player_next">>, <<"prev", "player_prev">>}
    IN  \A s, t \in Sessions :
            /\ Dispatched(s) =>
                  (spawned[s] # NoSpawn <=> Name(s) \in documented)
            /\ (Dispatched(s) /\ Dispatched(t)
                   /\ <<Name(s), Name(t)>> \in aliases) =>
                  spawned[s].action = spawned[t].action

\* C15, amended: the command names that reach an executor are exactly the
\* documented ones and the two further aliases player_volume_up and
\* player_volume_down, matched case-sensitively, and the two names of each
\* alias pair (player_toggle/play-pause, next/player_next,
\* prev/player_prev, volume_up/player_volume_up,
\* volume_down/player_volume_down) dispatch to the same action.
C15_AllowlistExact ==
    LET accepted == {"play", "pause", "player_toggle", "play-pause",
                     "next", "player_next", "prev", "player_prev",
                     "volume_up", "volume_down", "stop",
                     "player_volume_up", "player_volume_down"}
        aliases == {<<"player_toggle", "play-pause">>,
                    <<"next", "player_next">>, <<"prev", "player_prev">>,
                    <<"volume_up", "player_volume_up">>,
                    <<"volume_down", "player_volume_down">>}
    IN  \A s, t \in Sessions :
            /\ Dispatched(s) =>
                  (spawned[s] # NoSpawn <=> Name(s) \in accepted)
            /\ (Dispatched(s) /\ Dispatched(t)
                   /\ <<Name(s), Name(t)>> \in aliases) =>
                  spawned[s].action = spawned[t].action

\* the two names of the toggle pair have been dispatched, one by each
\* session, and both reached the executor through the same action
C15_Witness ==
    \E s, t \in Sessions :
        /\ Dispatched(s) /\ Name(s) = "player_toggle"
        /\ Dispatched(t) /\ Name(t) = "play-pause"
        /\ spawned[s].action = "TogglePlayPause"
        /\ spawned[t].action = "TogglePlayPause"

\* C16: Poller fire-on-start.  Once Poller has started, the task has been
\* invoked once more than ticks have been received: once at the start,
\* before any tick, and then once per tick.
C16_FireOnStart == ppc # "start" => fnN = tickN + 1

\* the first invocation of the task is running and no tick has fired yet
C16_Witness == ppc = "fn" /\ fnN = 1 /\ tickN = 0 /\ ~tick

\* C17: Poller stop.  Once the quit channel has been signalled, the
\* running Poller starts no new invocation of the task, even if a tick is
\* pending at the same moment.
C17_NoInvocationAfterQuit ==
    [][(quit /\ ppc # "start") => fnN' = fnN]_vars

\* C18: poll failure is contained.  When GetPlayerInfo returned an error,
\* that invocation of the task publishes nothing to the hub; Poller
\* returns only when quit is signalled; and a tick that is pending when the
\* task has returned after the failure runs the task again.
C18_PollFailureContained ==
    /\ snapErr => (bcastN = fnBase /\ bpc = "idle")
    /\ ppc = "returned" => quit
    /\ (snapErr /\ ppc = "select" /\ tick) => ENABLED PollerTick

\* the first poll failed, nothing was published, and the next tick has
\* invoked the task again
C18_Witness == snapErr /\ ppc = "fn" /\ fnN = 2 /\ bcastN = 0 /\ ~quit

C21_PerSessionFifo ==
    \A s \in Sessions :
      \A i, j \in DOMAIN out[s] : i < j => out[s][i] < out[s][j]

\* two messages reached one session, and another session got only the
\* second of them
C21_Witness ==
    \E s, u \in Sessions :
      /\ Len(out[s]) >= 2
      /\ out[u] = <<out[s][2]>>

C23_WelcomeFirst ==
    \A s \in Sessions :
      /\ first[s] \in {"", Kind(WelcomeMessage)}
      /\ wmsg[s] # WelcomeMessage
      /\ \A i \in DOMAIN queue[s] : queue[s][i] # WelcomeMessage

\* one session got its welcome and is being written a broadcast message
\* while another one is registered and still waits for its welcome
C23_Witness ==
    \E s, u \in Sessions :
      /\ first[s] = "welcome"
      /\ wpc[s] = "write"
      /\ hpc[u] = "welcome"
      /\ first[u] = ""

\* a step of the failure path of session s: its welcome, read or write
\* returned an error, or Handle of s went one step down its teardown
TeardownStep(s) ==
    \/ hpc[s] = "welcome" /\ hpc'[s] = "unreg"
    \/ hpc[s] = "read" /\ hpc'[s] = "waitWriter"
    \/ hpc[s] = "waitWriter" /\ hpc'[s] = "unreg"
    \/ hpc[s] = "unreg" /\ hpc'[s] = "close"
    \/ hpc[s] = "close" /\ hpc'[s] = "done"
    \/ wpc[s] = "write" /\ wpc'[s] = "exited"

\* nothing of session u changes in the step
SessionUnchanged(u) ==
    /\ hpc'[u] = hpc[u]
    /\ wpc'[u] = wpc[u]
    /\ wmsg'[u] = wmsg[u]
    /\ queue'[u] = queue[u]
    /\ closes'[u] = closes[u]
    /\ connClosed'[u] = connClosed[u]
    /\ (ClientID(u) \in DOMAIN clients) = (ClientID(u) \in DOMAIN clients')
    /\ ClientID(u) \in DOMAIN clients =>
         clients'[ClientID(u)] = clients[ClientID(u)]

\* C24: transport-error isolation.  A failed read or write on session s,
\* and every step of the teardown of s, changes the state of s only: the
\* registry entry, the queue, the connection and the goroutines of every
\* other session are as before, and the process keeps running.
C24_ErrorIsolation ==
    [][\A s \in Sessions :
         TeardownStep(s) =>
           /\ panicked' = panicked
           /\ \A u \in Sessions \ {s} : SessionUnchanged(u)]_vars

\* session s is torn down after a failure while session u is registered
\* and its writer is at work
C24_Witness ==
    \E s, u \in Sessions :
      /\ hpc[s] = "done"
      /\ closes[s] = 1
      /\ ClientID(u) \in DOMAIN clients
      /\ wpc[u] = "write"

C26_UniqueIds ==
    \A s \in Sessions :
      (RegisterDone(s) /\ ~UnregisterDone(s)) =>
        /\ ClientID(s) \in DOMAIN clients
        /\ clients[ClientID(s)] = s
        /\ closes[s] = 0

\* two connections of one remote address are live at once, and a third
\* session, if any, has been torn down
C26_Witness ==
    \E s, u \in Sessions :
      /\ s # u
      /\ RemoteAddr(s) = RemoteAddr(u)
      /\ RegisterDone(s) /\ ~UnregisterDone(s)
      /\ RegisterDone(u) /\ hpc[u] = "unreg"

\* C27: lock discipline.  A caller inside the critical section of
\* RegisterClient or UnregisterClient is there alone: no other operation
\* of the hub is inside clientsMu at the same time.  The callers inside
\* BroadcastMessage and GetClientCount hold the read lock only, so several
\* of them are inside together.
C27_LockDiscipline ==
    \A p \in Callers :
      (lpc[p] = "in" /\ lop[p] \in {"RegisterClient", "UnregisterClient"}) =>
        /\ \A q \in Callers \ {p} : lpc[q] # "in"
        /\ rw.writer = "held"
        /\ rw.readers = 0

\* two broadcasts are inside the critical section at once while a
\* register waits for them to leave
C27_Witness ==
    \E p, q, r \in Callers :
      /\ p # q
      /\ lpc[p] = "in" /\ lop[p] = "BroadcastMessage"
      /\ lpc[q] = "in" /\ lop[q] = "BroadcastMessage"
      /\ lpc[r] = "announced" /\ lop[r] = "RegisterClient"

\* C28: registry membership.  The set of registered ids changes only in a
\* RegisterClient or UnregisterClient call: every step that changes it is
\* the register or the deferred unregister of some Handle, and the steps
\* of BroadcastMessage, CleanClientBuffer and CleanAllBuffers (and
\* GetClientCount, which only reads the map) leave it as it is.
C28_MembershipFrame ==
    [][/\ DOMAIN clients' # DOMAIN clients =>
            \E s \in Sessions :
              \/ hpc[s] = "created" /\ hpc'[s] = "welcome"
              \/ hpc[s] = "unreg" /\ hpc'[s] = "close"
       /\ (bpc # bpc' \/ todo # todo' \/ cleanVars # cleanVars') =>
            /\ DOMAIN clients' = DOMAIN clients
            /\ GetClientCount' = GetClientCount]_vars

\* a broadcast is in its loop over two registered sessions while a
\* CleanClientBuffer call is in its loop for one of them
C28_Witness ==
    /\ bpc = "loop"
    /\ cpc = "drain"
    /\ Cardinality(DOMAIN clients) >= 2
    /\ bDropped # {}

\* C29: no operation spins.  The loop of CleanClientBuffer ends: once the
\* queue it drains holds nothing, the loop can take its default case and
\* return, also when UnregisterClient closed the queue after the lookup.
C29_CleanTerminates ==
    (cpc = "drain" /\ queue[ctarget] = <<>> /\ ~panicked)
      => ENABLED CleanDefault

\* C30: BroadcastMessage never sends on a closed queue.  Whatever
\* UnregisterClient calls come before or between its iterations, every id
\* the range loop has still to visit is registered and its queue is open.
C30_NoSendOnClosed ==
    bpc = "loop" =>
      \A k \in todo : k \in DOMAIN clients /\ closes[clients[k]] = 0

\* the loop of a broadcast has clients left to visit while the queue of a
\* session whose Handle is still in its read loop has been closed by an
\* UnregisterClient call
C30_Witness ==
    /\ bpc = "loop"
    /\ todo # {}
    /\ \E s \in Sessions : closes[s] = 1 /\ hpc[s] = "read"

\* C31: the operations of the hub are deadlock-free.  Under fair
\* scheduling every call of RegisterClient, UnregisterClient,
\* BroadcastMessage, GetClientCount and CleanAllBuffers, by any of the
\* concurrent callers, eventually returns.
C31_HubOpsReturn ==
    \A p \in Callers : (lop[p] \in HubOps) ~> (lop[p] = "")

\* a register waits in Lock behind a broadcast that is inside, while
\* another broadcast and an unregister wait behind the register
C31_Witness ==
    \E p, q \in Callers :
      /\ lpc[p] = "announced" /\ lop[p] = "RegisterClient"
      /\ lpc[q] = "wait" /\ lop[q] \in {"BroadcastMessage", "CleanAllBuffers"}
      /\ rw.readers >= 1

\* Handle of s is past the welcome and nothing was written on the
\* connection: the write of the welcome failed
WelcomeFailed(s) ==
    /\ hpc[s] \in {"read", "respond", "dispatch", "waitWriter", "unreg",
                   "close", "done"}
    /\ first[s] = ""

\* C32: the welcome-send failure path.  When the write of the welcome
\* fails, Handle returns without starting a writer goroutine; once it has
\* returned the session is out of the registry, its queue is closed once
\* and its connection is closed; and while the session was still
\* registered, an iteration of a broadcast over it could always proceed.
C32_WelcomeFailure ==
    \A s \in Sessions :
      WelcomeFailed(s) =>
        /\ wpc[s] = "none"
        /\ hpc[s] \in {"unreg", "close", "done"}
        /\ hpc[s] = "done" =>
             /\ ClientID(s) \notin DOMAIN clients
             /\ closes[s] = 1
             /\ connClosed[s]
        /\ (bpc = "loop" /\ ClientID(s) \in todo /\ ~panicked) =>
             ENABLED BroadcastStep(ClientID(s))

\* Handle of one session has returned after a failed welcome; the welcome
\* of another session has failed too, and the loop of a broadcast has gone
\* over that session, still registered, and is about to return
C32_Witness ==
    \E s, u \in Sessions :
      /\ hpc[s] = "done" /\ first[s] = "" /\ closes[s] = 1
      /\ hpc[u] = "unreg" /\ first[u] = "" /\ u \in bDropped
      /\ AtReturn

C34_PollerNeverStops ==
    /\ ~quit
    /\ ppc # "returned"
    /\ (ppc = "select" /\ tick /\ ~panicked) => ENABLED PollerTick

\* the poller is at its select after its last tick of the run, with no
\* client connected at that time
C34_Witness ==
    /\ ppc = "select"
    /\ tickN = MaxTicks
    /\ fnN = MaxTicks + 1
    /\ DOMAIN clients = {}

\* C35: in the shared-channel revision a message written with
\* WriteChannelMessage is received by at most one connection, so no message
\* reaches two of them
C35_AtMostOneReceiver ==
    \A n \in 1 .. sentN :
      Cardinality({s \in Sessions : n \in received[s]}) <= 1

\* a message was taken by one writer goroutine while another ranged over the
\* same channel
C35_Witness ==
    \E s, u \in Sessions :
      /\ s # u
      /\ shpc[s] = "write"
      /\ shpc[u] = "range"
      /\ chh[s] = chh[u]
      /\ sentN \in received[s]
      /\ sentN \notin received[u]

\* C36: in wsHandler no goroutine sends on the channel messages after it
\* was closed: the player poller never panics in its send
C36_NoSendOnClosedMessages ==
    \A s \in Sessions : poller[s] # "panic"

\* C37: in wsHandler the read loop never stays forever in a send on
\* messages: the send completes or the handler goes on to tear down
C37_ReaderSendCompletes ==
    \A s \in Sessions : (reader[s] = "send") ~> (reader[s] # "send")

\* C38: every call of GetChannel that has returned obtained the same channel
C38_SameInstance ==
    \A s, u \in Sessions :
      (Returned(s) /\ Returned(u)) => chh[s] = chh[u]
====
